---- MODULE Spec2Model ----
(***************************************************************************)
(* Resumable schema replication and data synchronisation                   *)
(* (debezium-setup/scripts: progress.py, replicate-schema.py, sync-data.py)*)
(*                                                                         *)
(* One operating-system process runs at a time.  A run is one invocation   *)
(* of replicate-schema.py (kind "schema") or sync-data.py (kind "data").   *)
(* Each kind has its own progress file; the file of a kind holds one phase *)
(* per table, so a session entry is keyed by the table name alone.         *)
(* The process can be terminated between any two steps (Kill).             *)
(***************************************************************************)
EXTENDS Integers, Sequences, FiniteSets, TLC

\* ------------------------------------------------------------------ bounds
NumTables == 3      \* length of the table list the source reports
MaxRows == 3        \* the first table has MaxRows source rows, the next one less, ...
BATCH_SIZE == 2     \* SYNC_BATCH_SIZE of the environment (sync-data.py:71)
MaxRuns == 3        \* invocations in one behaviour

\* ------------------------------------------------------------------ inputs
TableNames == <<"A", "B", "C", "D", "E", "F">>

\* tables / table_names: the table list, in the order the source reports it
Tables == SubSeq(TableNames, 1, NumTables)

TableSet == {Tables[i] : i \in 1..NumTables}

NoTable == "None"

\* a name no table of the list has (for --start-from-table)
UnknownTable == "Zed"

Kinds == {"schema", "data"}

\* tables.index(name) + 1
IndexOf(name) == CHOOSE i \in 1..NumTables : Tables[i] = name

\* the (unchanged) source rows of a table, as row numbers in source order
SourceRowCount(t) == IF MaxRows + 1 - IndexOf(t) > 0 THEN MaxRows + 1 - IndexOf(t) ELSE 0

SourceRows(t) == [i \in 1..SourceRowCount(t) |-> i]

\* the command lines: reset wins over everything, resume over start_from_table;
\* --no-truncate goes with --resume, and only sync-data.py has it
ArgSet ==
    {[reset |-> FALSE, resume |-> FALSE, start_from_table |-> NoTable, no_truncate |-> FALSE],
     [reset |-> FALSE, resume |-> TRUE, start_from_table |-> NoTable, no_truncate |-> FALSE],
     [reset |-> FALSE, resume |-> TRUE, start_from_table |-> NoTable, no_truncate |-> TRUE],
     [reset |-> TRUE, resume |-> FALSE, start_from_table |-> NoTable, no_truncate |-> FALSE]}
    \cup {[reset |-> FALSE, resume |-> FALSE, start_from_table |-> t, no_truncate |-> FALSE] :
             t \in TableSet \cup {UnknownTable}}

\* ------------------------------------------------------------------ ProgressTracker
\* _new_progress(): {"session_start", "last_updated", "tables": {}}
\* ok = the loaded value is a mapping with a "tables" mapping
new_progress == [ok |-> TRUE, tables |-> <<>>]

\* json.load of a file whose content is valid JSON but no session mapping
not_a_session == [ok |-> FALSE, tables |-> <<>>]

\* contents of a progress file
MissingFile == [state |-> "missing", tables |-> <<>>]
EmptyFile == [state |-> "empty", tables |-> <<>>]
PartialFile == [state |-> "partial", tables |-> <<>>]
NonSessionFile == [state |-> "nonsession", tables |-> <<>>]

\* json.dump(self.progress_data, f, indent=2), once the file is closed
json_dump(data) == [state |-> "session", tables |-> data.tables]

\* _load_progress: a missing file and a JSONDecodeError give a new session,
\* anything json.load can parse is returned as it is
load_progress(f) ==
    CASE f.state = "missing" -> new_progress
      [] f.state \in {"empty", "partial"} -> new_progress
      [] f.state = "nonsession" -> not_a_session
      [] OTHER -> [ok |-> TRUE, tables |-> f.tables]

\* table_name in self.progress_data["tables"]
HasKey(data, t) == \E i \in 1..Len(data.tables) : data.tables[i].name = t

KeyPos(data, t) == CHOOSE i \in 1..Len(data.tables) : data.tables[i].name = t

\* self.progress_data["tables"][table_name][phase] = {...}: a new key goes to the
\* end of the mapping, an existing key keeps its place
SetRecord(data, t, st, r, e) ==
    LET rec == [name |-> t, status |-> st, rows |-> r, error |-> e]
    IN  [data EXCEPT !.tables =
            IF HasKey(data, t) THEN [@ EXCEPT ![KeyPos(data, t)] = rec]
            ELSE Append(@, rec)]

mark_table_started(data, t) == SetRecord(data, t, "in_progress", 0, "None")

mark_table_completed(data, t, rows_synced) == SetRecord(data, t, "completed", rows_synced, "None")

mark_table_failed(data, t, error, rows_synced) == SetRecord(data, t, "failed", rows_synced, error)

\* get_table_status: the status, or None ("absent") without a record
get_table_status(data, t) ==
    IF HasKey(data, t) THEN data.tables[KeyPos(data, t)].status ELSE "absent"

is_table_completed(data, t) == HasKey(data, t) /\ data.tables[KeyPos(data, t)].status = "completed"

is_table_partial(data, t) ==
    HasKey(data, t) /\ data.tables[KeyPos(data, t)].status \in {"in_progress", "failed"}

\* get_last_failed_table: the first failed or in_progress entry in the order of
\* the mapping's keys
get_last_failed_table(data) ==
    LET hits == {i \in 1..Len(data.tables) : data.tables[i].status \in {"failed", "in_progress"}}
    IN  IF hits = {} THEN NoTable
        ELSE data.tables[CHOOSE i \in hits : \A j \in hits : i <= j].name

\* ------------------------------------------------------------------ target database
NoTarget == [exists |-> FALSE, rows |-> <<>>]

EmptyTarget == [exists |-> TRUE, rows |-> <<>>]

NoTxn == [active |-> FALSE, val |-> NoTarget]

\* DROP TABLE IF EXISTS ... CASCADE
DropTable(tbl) == NoTarget

\* CREATE TABLE IF NOT EXISTS ...
CreateTable(tbl) == IF tbl.exists THEN tbl ELSE EmptyTarget

\* (variant: the TRUNCATE is left out, as for truncate_partial=False)
Truncate_Skipped(tbl) == tbl

\* TRUNCATE TABLE ... CASCADE (of an existing table)
Truncate(tbl) == [tbl EXCEPT !.rows = <<>>]

\* execute_batch(pg_cursor, insert_query, batch)
InsertRows(tbl, batch) == [tbl EXCEPT !.rows = @ \o batch]

\* ------------------------------------------------------------------ state
VARIABLES
    pc,            \* position of the process ("idle": never started)
    kind,          \* which script runs
    args,          \* its command line
    runs,          \* invocations so far
    mem,           \* progress_tracker.progress_data
    file,          \* the two progress files on disk
    tgt,           \* committed target tables
    txn,           \* the open target transaction on the current table
    idx,           \* enumerate(tables, 1) index; 0 before the loop
    start_index,
    last_failed,   \* get_last_failed_table(...) of a --resume run, else None
    cont,          \* where the caller goes on once _save_progress has returned
    retval,        \* what create_postgres_table / sync_table_data returned
    batch,
    fetched,       \* rows read from the source cursor
    rows_synced,
    success_count, \* success_count / successful_tables
    skipped_count,
    exitCode,      \* -1 while the process runs
    uncaught,      \* the process ended with an uncaught exception
    visited,       \* the tables that reached "Processing:" in this run
    prev_status,   \* the current table's status before it was marked started
    synced,        \* a mutating ProgressTracker call has returned in this run
    pre_save,      \* progress_data as it was before the mutation being saved
    call           \* a call of one of the scripts' functions on its own: [fn, arg, ret]

vars == <<pc, kind, args, runs, mem, file, tgt, txn, idx, start_index, last_failed, cont,
          retval, batch, fetched, rows_synced, success_count, skipped_count, exitCode,
          uncaught, visited, prev_status, synced, pre_save, call>>

\* no function has been called on its own
NoCall == [fn |-> "none", arg |-> <<>>, ret |-> <<>>]

Cur == Tables[idx]

\* the current table as the open transaction sees it
View == IF txn.active THEN txn.val ELSE tgt[Cur]

Init ==
    /\ pc = "idle"
    /\ kind = "schema"
    /\ args = [reset |-> FALSE, resume |-> FALSE, start_from_table |-> NoTable,
               no_truncate |-> FALSE]
    /\ runs = 0
    /\ mem = new_progress
    \* no progress file yet, or one that another tool left (valid JSON, no session)
    /\ file \in [Kinds -> {MissingFile, NonSessionFile}]
    /\ tgt = [t \in TableSet |-> NoTarget]
    /\ txn = NoTxn
    /\ idx = 0
    /\ start_index = 0
    /\ last_failed = NoTable
    /\ cont = "none"
    /\ retval = 0
    /\ batch = <<>>
    /\ fetched = 0
    /\ rows_synced = 0
    /\ success_count = 0
    /\ skipped_count = 0
    /\ exitCode = -1
    /\ uncaught = FALSE
    /\ visited = <<>>
    /\ prev_status = "absent"
    /\ synced = FALSE
    /\ pre_save = new_progress
    /\ call = NoCall

\* ------------------------------------------------------------------ main(): start
\* ProgressTracker(<file of the kind>): _load_progress
StartRun(k, a) ==
    /\ pc \in {"idle", "done", "killed"}
    /\ runs < MaxRuns
    /\ a.no_truncate => k = "data"
    /\ runs' = runs + 1
    /\ kind' = k
    /\ args' = a
    /\ mem' = load_progress(file[k])
    /\ pc' = "loaded"
    /\ txn' = NoTxn
    /\ idx' = 0
    /\ start_index' = 0
    /\ last_failed' = NoTable
    /\ cont' = "none"
    /\ retval' = 0
    /\ batch' = <<>>
    /\ fetched' = 0
    /\ rows_synced' = 0
    /\ success_count' = 0
    /\ skipped_count' = 0
    /\ exitCode' = -1
    /\ uncaught' = FALSE
    /\ visited' = <<>>
    /\ prev_status' = "absent"
    /\ synced' = FALSE
    /\ pre_save' = new_progress
    /\ UNCHANGED <<file, tgt, call>>

\* _save_progress, first step: open(self.progress_file, 'w') truncates the file.
\* The caller's change of progress_data comes right before it.
BeginSave(data, k) ==
    /\ pre_save' = mem
    /\ mem' = data
    /\ file' = [file EXCEPT ![kind] = EmptyFile]
    /\ pc' = "save_open"
    /\ cont' = k

\* (variant: reset_progress saves the session as it is)
ResetProgress_KeepsSession ==
    /\ pc = "loaded"
    /\ args.reset
    /\ BeginSave(mem, "return")
    /\ UNCHANGED <<kind, args, runs, tgt, txn, idx, start_index, last_failed, retval, batch,
                   fetched, rows_synced, success_count, skipped_count, exitCode, uncaught,
                   visited, prev_status, synced, call>>

\* args.reset: reset_progress(), then return
ResetProgress ==
    /\ pc = "loaded"
    /\ args.reset
    /\ BeginSave(new_progress, "return")
    /\ UNCHANGED <<kind, args, runs, tgt, txn, idx, start_index, last_failed, retval, batch,
                   fetched, rows_synced, success_count, skipped_count, exitCode, uncaught,
                   visited, prev_status, synced, call>>

\* connect_mssql() / connect_postgres() fail: sys.exit(1)
ConnectFails ==
    /\ pc = "loaded"
    /\ ~args.reset
    /\ pc' = "done"
    /\ exitCode' = 1
    /\ UNCHANGED <<kind, args, runs, mem, file, tgt, txn, idx, start_index, last_failed,
                   cont, retval, batch, fetched, rows_synced, success_count, skipped_count,
                   uncaught, visited, prev_status, synced, pre_save, call>>

\* (variant: an unknown --start-from-table name starts at the first table)
StartIndex_UnknownFromFirst(data, a) ==
    IF a.resume THEN
        LET found == get_last_failed_table(data)
        IN  IF found # NoTable /\ found \in TableSet THEN IndexOf(found) - 1 ELSE 0
    ELSE IF a.start_from_table \in TableSet THEN IndexOf(a.start_from_table) - 1
    ELSE 0

\* (variant: --resume without a failed or in_progress record has nothing to do)
StartIndex_ResumeNothingLeft(data, a) ==
    IF a.resume THEN
        LET found == get_last_failed_table(data)
        IN  IF found # NoTable /\ found \in TableSet THEN IndexOf(found) - 1 ELSE NumTables
    ELSE IF a.start_from_table # NoTable THEN
        IF a.start_from_table \in TableSet THEN IndexOf(a.start_from_table) - 1 ELSE -1
    ELSE 0

\* "Determine starting point": the index (from 0) the loop starts at, -1 for sys.exit(1)
StartIndex(data, a) ==
    IF a.resume THEN
        LET found == get_last_failed_table(data)
        IN  IF found # NoTable /\ found \in TableSet THEN IndexOf(found) - 1 ELSE 0
    ELSE IF a.start_from_table # NoTable THEN
        IF a.start_from_table \in TableSet THEN IndexOf(a.start_from_table) - 1 ELSE -1
    ELSE 0

\* display_progress (the first read of progress_data["tables"]), then the starting point
Plan ==
    /\ pc = "loaded"
    /\ ~args.reset
    /\ IF ~mem.ok
       THEN \* progress_data["tables"] raises: nothing catches it
            /\ pc' = "done" /\ exitCode' = 1 /\ uncaught' = TRUE
            /\ UNCHANGED <<idx, start_index, last_failed>>
       ELSE IF StartIndex(mem, args) < 0
       THEN /\ pc' = "done" /\ exitCode' = 1
            /\ UNCHANGED <<idx, start_index, last_failed, uncaught>>
       ELSE /\ pc' = "loop" /\ idx' = 1 /\ start_index' = StartIndex(mem, args)
            /\ last_failed' = IF args.resume THEN get_last_failed_table(mem) ELSE NoTable
            /\ UNCHANGED <<exitCode, uncaught>>
    /\ UNCHANGED <<kind, args, runs, mem, file, tgt, txn, cont, retval, batch, fetched,
                   rows_synced, success_count, skipped_count, visited, prev_status, synced,
                   pre_save, call>>

\* ------------------------------------------------------------------ main(): the loop
InLoop == pc = "loop" /\ idx <= NumTables

\* "Skip tables before start_index"
SkipBeforeStart ==
    /\ InLoop
    /\ idx - 1 < start_index
    /\ skipped_count' = skipped_count + 1
    /\ idx' = idx + 1
    /\ UNCHANGED <<pc, kind, args, runs, mem, file, tgt, txn, start_index, last_failed,
                   cont, retval, batch, fetched, rows_synced, success_count, exitCode,
                   uncaught, visited, prev_status, synced, pre_save, call>>

\* the table is handed to create_postgres_table / sync_table_data
IsProcessed(data, a, i) == a.resume \/ ~is_table_completed(data, Tables[i])

\* "Skip if already completed (unless --resume flag used)"
SkipCompleted ==
    /\ InLoop
    /\ idx - 1 >= start_index
    /\ ~IsProcessed(mem, args, idx)
    /\ skipped_count' = skipped_count + 1
    /\ success_count' = IF kind = "schema" THEN success_count + 1 ELSE success_count
    /\ idx' = idx + 1
    /\ UNCHANGED <<pc, kind, args, runs, mem, file, tgt, txn, start_index, last_failed,
                   cont, retval, batch, fetched, rows_synced, exitCode, uncaught, visited,
                   prev_status, synced, pre_save, call>>

\* (variant: the test against start_index is left out)
Processing_IgnoresStart == InLoop /\ IsProcessed(mem, args, idx)

\* "Processing:": the table is at or after start_index and not skipped as completed
Processing == InLoop /\ idx - 1 >= start_index /\ IsProcessed(mem, args, idx)

\* replicate-schema: get_mssql_schema returns the columns, create_postgres_table
\* marks the table started
SchemaRead ==
    /\ Processing
    /\ kind = "schema"
    /\ visited' = Append(visited, idx)
    /\ prev_status' = get_table_status(mem, Cur)
    /\ BeginSave(mark_table_started(mem, Cur), "ddl_drop")
    /\ UNCHANGED <<kind, args, runs, tgt, txn, idx, start_index, last_failed, retval, batch,
                   fetched, rows_synced, success_count, skipped_count, exitCode, uncaught,
                   synced, call>>

\* replicate-schema: get_mssql_schema returns no row ("if schema:" is false)
SchemaReadEmpty ==
    /\ Processing
    /\ kind = "schema"
    /\ visited' = Append(visited, idx)
    /\ idx' = idx + 1
    /\ UNCHANGED <<pc, kind, args, runs, mem, file, tgt, txn, start_index, last_failed,
                   cont, retval, batch, fetched, rows_synced, success_count, skipped_count,
                   exitCode, uncaught, prev_status, synced, pre_save, call>>

\* replicate-schema: get_mssql_schema raises; main() has no try around it
SchemaReadRaises ==
    /\ Processing
    /\ kind = "schema"
    /\ visited' = Append(visited, idx)
    /\ pc' = "done"
    /\ exitCode' = 1
    /\ uncaught' = TRUE
    /\ UNCHANGED <<kind, args, runs, mem, file, tgt, txn, idx, start_index, last_failed,
                   cont, retval, batch, fetched, rows_synced, success_count, skipped_count,
                   prev_status, synced, pre_save, call>>

\* sync-data: get_table_columns returns, sync_table_data marks the table started
DataRead ==
    /\ Processing
    /\ kind = "data"
    /\ visited' = Append(visited, idx)
    /\ prev_status' = get_table_status(mem, Cur)
    /\ BeginSave(mark_table_started(mem, Cur), "select")
    /\ UNCHANGED <<kind, args, runs, tgt, txn, idx, start_index, last_failed, retval, batch,
                   fetched, rows_synced, success_count, skipped_count, exitCode, uncaught,
                   synced, call>>

\* sync-data: get_table_columns raises; main()'s except marks the table failed
DataReadRaises ==
    /\ Processing
    /\ kind = "data"
    /\ visited' = Append(visited, idx)
    /\ prev_status' = get_table_status(mem, Cur)
    /\ BeginSave(mark_table_failed(mem, Cur, "exc", 0), "caught")
    /\ UNCHANGED <<kind, args, runs, tgt, txn, idx, start_index, last_failed, retval, batch,
                   fetched, rows_synced, success_count, skipped_count, exitCode, uncaught,
                   synced, call>>

\* ------------------------------------------------------------------ _save_progress
\* json.dump has written a part of the text
SaveWrite ==
    /\ pc = "save_open"
    /\ file' = [file EXCEPT ![kind] = PartialFile]
    /\ pc' = "save_write"
    /\ UNCHANGED <<kind, args, runs, mem, tgt, txn, idx, start_index, last_failed, cont,
                   retval, batch, fetched, rows_synced, success_count, skipped_count,
                   exitCode, uncaught, visited, prev_status, synced, pre_save, call>>

\* main()'s count of a returned call: "if create_postgres_table(...)" / "if rows >= 0"
CountsAsSuccess(k, r) == IF k = "schema" THEN r = 1 ELSE r >= 0

\* the mutating call returns to its caller, which goes on
AfterSave ==
    /\ synced' = TRUE
    /\ pre_save' = new_progress
    /\ CASE cont = "return" ->
              /\ pc' = "done" /\ exitCode' = 0
              /\ UNCHANGED <<idx, success_count>>
         [] cont = "returned" ->
              /\ pc' = "loop" /\ idx' = idx + 1
              /\ success_count' =
                    IF CountsAsSuccess(kind, retval) THEN success_count + 1 ELSE success_count
              /\ UNCHANGED exitCode
         [] cont = "caught" ->
              /\ pc' = "loop" /\ idx' = idx + 1
              /\ UNCHANGED <<exitCode, success_count>>
         [] OTHER ->
              /\ pc' = cont
              /\ UNCHANGED <<idx, exitCode, success_count>>
    /\ UNCHANGED <<kind, args, runs, mem, tgt, txn, start_index, last_failed, cont, retval,
                   batch, fetched, rows_synced, skipped_count, uncaught, visited,
                   prev_status, call>>

\* (variant: the text stays in a buffer when the call returns)
SaveClose_Unflushed ==
    /\ pc = "save_write"
    /\ UNCHANGED file
    /\ AfterSave

\* the "with" block ends: the file is complete and closed
SaveClose ==
    /\ pc = "save_write"
    /\ file' = [file EXCEPT ![kind] = json_dump(mem)]
    /\ AfterSave

\* ------------------------------------------------------------------ create_postgres_table
\* (variant: the connection is in autocommit mode, the DROP is durable at once)
DdlDrop_Autocommit ==
    /\ pc = "ddl_drop"
    /\ tgt' = [tgt EXCEPT ![Cur] = DropTable(View)]
    /\ txn' = NoTxn
    /\ pc' = "ddl_create"
    /\ UNCHANGED <<kind, args, runs, mem, file, idx, start_index, last_failed, cont, retval,
                   batch, fetched, rows_synced, success_count, skipped_count, exitCode,
                   uncaught, visited, prev_status, synced, pre_save, call>>

\* cursor.execute("DROP TABLE IF EXISTS ...")
DdlDrop ==
    /\ pc = "ddl_drop"
    /\ txn' = [active |-> TRUE, val |-> DropTable(View)]
    /\ pc' = "ddl_create"
    /\ UNCHANGED <<kind, args, runs, mem, file, tgt, idx, start_index, last_failed, cont,
                   retval, batch, fetched, rows_synced, success_count, skipped_count,
                   exitCode, uncaught, visited, prev_status, synced, pre_save, call>>

\* cursor.execute(create_sql)
DdlCreate ==
    /\ pc = "ddl_create"
    /\ txn' = [active |-> TRUE, val |-> CreateTable(View)]
    /\ pc' = "ddl_commit"
    /\ UNCHANGED <<kind, args, runs, mem, file, tgt, idx, start_index, last_failed, cont,
                   retval, batch, fetched, rows_synced, success_count, skipped_count,
                   exitCode, uncaught, visited, prev_status, synced, pre_save, call>>

\* (variant: create_postgres_table goes on without pg_conn.commit())
DdlCommit_Skipped ==
    /\ pc = "ddl_commit"
    /\ pc' = "ddl_done"
    /\ UNCHANGED <<kind, args, runs, mem, file, tgt, txn, idx, start_index, last_failed, cont,
                   retval, batch, fetched, rows_synced, success_count, skipped_count,
                   exitCode, uncaught, visited, prev_status, synced, pre_save, call>>

\* pg_conn.commit()
DdlCommit ==
    /\ pc = "ddl_commit"
    /\ tgt' = [tgt EXCEPT ![Cur] = View]
    /\ txn' = NoTxn
    /\ pc' = "ddl_done"
    /\ UNCHANGED <<kind, args, runs, mem, file, idx, start_index, last_failed, cont, retval,
                   batch, fetched, rows_synced, success_count, skipped_count, exitCode,
                   uncaught, visited, prev_status, synced, pre_save, call>>

\* mark_table_completed(table_name, "schema"); return True
DdlCompleted ==
    /\ pc = "ddl_done"
    /\ retval' = 1
    /\ BeginSave(mark_table_completed(mem, Cur, 0), "returned")
    /\ UNCHANGED <<kind, args, runs, tgt, txn, idx, start_index, last_failed, batch,
                   fetched, rows_synced, success_count, skipped_count, exitCode, uncaught,
                   visited, prev_status, synced, call>>

\* a statement or the commit raises: rollback, mark_table_failed, return False
DdlRaises ==
    /\ pc \in {"ddl_drop", "ddl_create", "ddl_commit"}
    /\ txn' = NoTxn
    /\ retval' = 0
    /\ BeginSave(mark_table_failed(mem, Cur, "exc", 0), "returned")
    /\ UNCHANGED <<kind, args, runs, tgt, idx, start_index, last_failed, batch, fetched,
                   rows_synced, success_count, skipped_count, exitCode, uncaught, visited,
                   prev_status, synced, call>>

\* ------------------------------------------------------------------ sync_table_data
\* mssql_cursor.execute(select_query)
SyncSelect ==
    /\ pc = "select"
    /\ fetched' = 0
    /\ pc' = "truncate"
    /\ UNCHANGED <<kind, args, runs, mem, file, tgt, txn, idx, start_index, last_failed,
                   cont, retval, batch, rows_synced, success_count, skipped_count, exitCode,
                   uncaught, visited, prev_status, synced, pre_save, call>>

\* pg_cursor.execute("TRUNCATE TABLE ... CASCADE"): the table has to exist.
\* The statement is executed whatever truncate_partial (not args.no_truncate) is:
\* sync_table_data never reads the parameter.
SyncTruncate ==
    /\ pc = "truncate"
    /\ View.exists
    /\ txn' = [active |-> TRUE, val |-> Truncate(View)]
    /\ pc' = "truncate_commit"
    /\ UNCHANGED <<kind, args, runs, mem, file, tgt, idx, start_index, last_failed, cont,
                   retval, batch, fetched, rows_synced, success_count, skipped_count,
                   exitCode, uncaught, visited, prev_status, synced, pre_save, call>>

\* postgres_conn.commit() right after the TRUNCATE; rows_synced = 0; batch = []
SyncTruncateCommit ==
    /\ pc = "truncate_commit"
    /\ tgt' = [tgt EXCEPT ![Cur] = View]
    /\ txn' = NoTxn
    /\ rows_synced' = 0
    /\ batch' = <<>>
    /\ pc' = "fetch"
    /\ UNCHANGED <<kind, args, runs, mem, file, idx, start_index, last_failed, cont, retval,
                   fetched, success_count, skipped_count, exitCode, uncaught, visited,
                   prev_status, synced, pre_save, call>>

\* fetchone() returns a row; it is transformed and appended to the batch
SyncFetchRow ==
    /\ pc = "fetch"
    /\ fetched < SourceRowCount(Cur)
    /\ fetched' = fetched + 1
    /\ batch' = Append(batch, SourceRows(Cur)[fetched + 1])
    /\ pc' = IF Len(batch) + 1 >= BATCH_SIZE THEN "flush" ELSE "fetch"
    /\ UNCHANGED <<kind, args, runs, mem, file, tgt, txn, idx, start_index, last_failed,
                   cont, retval, rows_synced, success_count, skipped_count, exitCode,
                   uncaught, visited, prev_status, synced, pre_save, call>>

\* fetchone() returns None: "Insert remaining batch", or leave the loop
SyncFetchEnd ==
    /\ pc = "fetch"
    /\ fetched = SourceRowCount(Cur)
    /\ pc' = IF batch # <<>> THEN "flush_last" ELSE "sync_done"
    /\ UNCHANGED <<kind, args, runs, mem, file, tgt, txn, idx, start_index, last_failed,
                   cont, retval, batch, fetched, rows_synced, success_count, skipped_count,
                   exitCode, uncaught, visited, prev_status, synced, pre_save, call>>

\* execute_batch(pg_cursor, insert_query, batch, page_size=BATCH_SIZE)
SyncExecuteBatch ==
    /\ pc \in {"flush", "flush_last"}
    /\ txn' = [active |-> TRUE, val |-> InsertRows(View, batch)]
    /\ pc' = IF pc = "flush" THEN "commit" ELSE "commit_last"
    /\ UNCHANGED <<kind, args, runs, mem, file, tgt, idx, start_index, last_failed, cont,
                   retval, batch, fetched, rows_synced, success_count, skipped_count,
                   exitCode, uncaught, visited, prev_status, synced, pre_save, call>>

\* postgres_conn.commit(); rows_synced += len(batch); batch = [] (or break)
SyncCommitBatch ==
    /\ pc \in {"commit", "commit_last"}
    /\ tgt' = [tgt EXCEPT ![Cur] = View]
    /\ txn' = NoTxn
    /\ rows_synced' = rows_synced + Len(batch)
    /\ batch' = <<>>
    /\ pc' = IF pc = "commit" THEN "fetch" ELSE "sync_done"
    /\ UNCHANGED <<kind, args, runs, mem, file, idx, start_index, last_failed, cont, retval,
                   fetched, success_count, skipped_count, exitCode, uncaught, visited,
                   prev_status, synced, pre_save, call>>

\* mark_table_completed(table, "data", rows_synced); return rows_synced
SyncCompleted ==
    /\ pc = "sync_done"
    /\ retval' = rows_synced
    /\ BeginSave(mark_table_completed(mem, Cur, rows_synced), "returned")
    /\ UNCHANGED <<kind, args, runs, tgt, txn, idx, start_index, last_failed, batch,
                   fetched, rows_synced, success_count, skipped_count, exitCode, uncaught,
                   visited, prev_status, synced, call>>

SyncPcs == {"select", "truncate", "truncate_commit", "fetch", "flush", "flush_last",
            "commit", "commit_last"}

\* the except branch: rollback, mark_table_failed(table, "data", error_msg), return 0
SyncRaises ==
    /\ pc \in SyncPcs
    /\ txn' = NoTxn
    /\ retval' = 0
    /\ BeginSave(mark_table_failed(mem, Cur, "exc", 0), "returned")
    /\ UNCHANGED <<kind, args, runs, tgt, idx, start_index, last_failed, batch, fetched,
                   rows_synced, success_count, skipped_count, exitCode, uncaught, visited,
                   prev_status, synced, call>>

\* ------------------------------------------------------------------ main(): the end
\* replicate-schema.py returns from main(); sync-data.py calls sys.exit
ExitCodeAtEnd(k, succ, skipped) ==
    IF k = "schema" THEN 0
    ELSE IF succ + skipped = NumTables THEN 0 ELSE 1

\* the "Failed:" count of the final summary
FailedCount(succ, skipped) == NumTables - succ - skipped

Finish ==
    /\ pc = "loop"
    /\ idx > NumTables
    /\ pc' = "done"
    /\ exitCode' = ExitCodeAtEnd(kind, success_count, skipped_count)
    /\ UNCHANGED <<kind, args, runs, mem, file, tgt, txn, idx, start_index, last_failed,
                   cont, retval, batch, fetched, rows_synced, success_count, skipped_count,
                   uncaught, visited, prev_status, synced, pre_save, call>>

\* ------------------------------------------------------------------ termination
\* the process is terminated from outside: its memory and its open transaction are
\* gone, the files and the committed tables stay as they are
Kill ==
    /\ pc \notin {"idle", "done", "killed"}
    /\ pc' = "killed"
    /\ mem' = new_progress
    /\ txn' = NoTxn
    /\ batch' = <<>>
    /\ start_index' = 0
    /\ last_failed' = NoTable
    /\ cont' = "none"
    /\ retval' = 0
    /\ fetched' = 0
    /\ rows_synced' = 0
    /\ success_count' = 0
    /\ skipped_count' = 0
    /\ visited' = <<>>
    /\ prev_status' = "absent"
    /\ synced' = FALSE
    /\ pre_save' = new_progress
    /\ UNCHANGED <<kind, args, runs, file, tgt, idx, exitCode, uncaught, call>>

Next ==
    \/ \E k \in Kinds, a \in ArgSet : StartRun(k, a)
    \/ ResetProgress
    \/ ConnectFails
    \/ Plan
    \/ SkipBeforeStart
    \/ SkipCompleted
    \/ SchemaRead
    \/ SchemaReadEmpty
    \/ SchemaReadRaises
    \/ DataRead
    \/ DataReadRaises
    \/ SaveWrite
    \/ SaveClose
    \/ DdlDrop
    \/ DdlCreate
    \/ DdlCommit
    \/ DdlCompleted
    \/ DdlRaises
    \/ SyncSelect
    \/ SyncTruncate
    \/ SyncTruncateCommit
    \/ SyncFetchRow
    \/ SyncFetchEnd
    \/ SyncExecuteBatch
    \/ SyncCommitBatch
    \/ SyncCompleted
    \/ SyncRaises
    \/ Finish
    \/ Kill

Spec == Init /\ [][Next]_vars

\* ================================================================== the functions on their own
\* ------------------------------------------------------------------ str
UpperChars ==
    <<"A", "B", "C", "D", "E", "F", "G", "H", "I", "J", "K", "L", "M", "N", "O", "P", "Q", "R",
     "S", "T", "U", "V", "W", "X", "Y", "Z">>

LowerChars ==
    <<"a", "b", "c", "d", "e", "f", "g", "h", "i", "j", "k", "l", "m", "n", "o", "p", "q", "r",
     "s", "t", "u", "v", "w", "x", "y", "z">>

Digits == {"0", "1", "2", "3", "4", "5", "6", "7", "8", "9"}

IsUpper(c) == \E i \in 1..Len(UpperChars) : UpperChars[i] = c

IsLower(c) == \E i \in 1..Len(LowerChars) : LowerChars[i] = c

\* a string is a sequence of characters here; Join gives the string itself
RECURSIVE Join(_)
Join(s) == IF s = <<>> THEN "" ELSE Head(s) \o Join(Tail(s))

char_lower(c) ==
    IF IsUpper(c) THEN LowerChars[CHOOSE i \in 1..Len(UpperChars) : UpperChars[i] = c] ELSE c

\* (variant: the letters stay as they are)
str_keep(s) == s

\* str.lower()
str_lower(s) == [i \in 1..Len(s) |-> char_lower(s[i])]

\* ------------------------------------------------------------------ convert_type
\* an entry of TYPE_MAPPING that is a lambda, not a string
Lambda == "<lambda>"

\* calling a lambda without its arguments: TypeError
Raised == "<TypeError>"

TYPE_MAPPING ==
    ("tinyint" :> "SMALLINT") @@ ("smallint" :> "SMALLINT") @@
    ("int" :> "INTEGER") @@ ("bigint" :> "BIGINT") @@ ("decimal" :> Lambda) @@
    ("numeric" :> Lambda) @@ ("money" :> "NUMERIC(19,4)") @@
    ("smallmoney" :> "NUMERIC(10,4)") @@ ("float" :> "DOUBLE PRECISION") @@
    ("real" :> "REAL") @@ ("bit" :> "BOOLEAN") @@ ("char" :> Lambda) @@
    ("varchar" :> Lambda) @@ ("nchar" :> Lambda) @@ ("nvarchar" :> Lambda) @@
    ("text" :> "TEXT") @@ ("ntext" :> "TEXT") @@ ("date" :> "DATE") @@
    ("time" :> "TIME(6)") @@ ("datetime" :> "TIMESTAMP(6)") @@
    ("datetime2" :> "TIMESTAMP(6)") @@ ("smalldatetime" :> "TIMESTAMP(6)") @@
    ("datetimeoffset" :> "TIMESTAMPTZ(6)") @@ ("binary" :> "BYTEA") @@
    ("varbinary" :> "BYTEA") @@ ("image" :> "BYTEA") @@
    ("uniqueidentifier" :> "UUID") @@ ("xml" :> "TEXT") @@ ("sql_variant" :> "TEXT") @@
    ("geography" :> "TEXT") @@ ("geometry" :> "TEXT") @@ ("hierarchyid" :> "TEXT")

\* the lambdas of 'decimal' and 'numeric'
numeric_type(p, s) == "NUMERIC(" \o ToString(p) \o "," \o ToString(s) \o ")"

\* the lambdas of 'char', 'varchar', 'nchar', 'nvarchar' (// is the floor division)
char_type(t, length) ==
    CASE t = "char" -> "CHAR(" \o ToString(length \div 2) \o ")"
      [] t = "nchar" -> "CHAR(" \o ToString(length \div 2) \o ")"
      [] t = "varchar" ->
            IF length > 0 /\ length < 8000 THEN "VARCHAR(" \o ToString(length) \o ")"
            ELSE "TEXT"
      [] t = "nvarchar" ->
            IF length > 0 /\ length < 8000 THEN "VARCHAR(" \o ToString(length \div 2) \o ")"
            ELSE "TEXT"

\* (variant: the branch of the character types is missing)
convert_type_NoCharBranch(data_type, max_length, precision, scale) ==
    LET data_type_lower == Join(str_lower(data_type))
    IN  IF data_type_lower \in {"decimal", "numeric"}
        THEN numeric_type(precision, scale)
        ELSE IF data_type_lower \in DOMAIN TYPE_MAPPING
        THEN LET mapping == TYPE_MAPPING[data_type_lower]
             IN  IF mapping # Lambda THEN mapping ELSE Raised
        ELSE "TEXT"

convert_type(data_type, max_length, precision, scale) ==
    LET data_type_lower == Join(str_lower(data_type))
    IN  IF data_type_lower \in {"decimal", "numeric"}
        THEN numeric_type(precision, scale)
        ELSE IF data_type_lower \in {"char", "varchar", "nchar", "nvarchar"}
        THEN char_type(data_type_lower, max_length)
        ELSE IF data_type_lower \in DOMAIN TYPE_MAPPING
        THEN LET mapping == TYPE_MAPPING[data_type_lower]
             IN  IF mapping # Lambda THEN mapping ELSE Raised
        ELSE "TEXT"

\* source type names, in several letter cases, known and unknown
TypeNames ==
    {<<"v", "a", "r", "c", "h", "a", "r">>,
     <<"V", "A", "R", "C", "H", "A", "R">>,
     <<"n", "v", "a", "r", "c", "h", "a", "r">>,
     <<"N", "V", "a", "r", "C", "h", "a", "r">>,
     <<"c", "h", "a", "r">>,
     <<"N", "C", "h", "a", "r">>,
     <<"D", "e", "c", "i", "m", "a", "l">>,
     <<"n", "u", "m", "e", "r", "i", "c">>,
     <<"I", "N", "T">>,
     <<"B", "i", "t">>,
     <<"D", "a", "t", "e", "T", "i", "m", "e", "2">>,
     <<"u", "n", "i", "q", "u", "e", "i", "d", "e", "n", "t", "i", "f", "i", "e", "r">>,
     <<"j", "s", "o", "n">>,
     <<"G", "e", "o", "g", "r", "a", "p", "h", "y", "2">>,
     <<>>}

\* column lengths as sys.columns reports them (bytes; -1 for max), and around the limits
Lengths == {-1, 0, 1, 2, 7999, 8000, 8001}

Precisions == {0, 18}

Scales == {0, 4}

\* ------------------------------------------------------------------ to_snake_case
\* the end of the run of lowercase letters that starts at i
RECURSIVE LowerRunEnd(_, _)
LowerRunEnd(s, i) == IF i < Len(s) /\ IsLower(s[i + 1]) THEN LowerRunEnd(s, i + 1) ELSE i

\* re.sub('(.)([A-Z][a-z]+)', r'\1_\2', name), from position i on
RECURSIVE sub_word(_, _)
sub_word(s, i) ==
    IF i > Len(s) THEN <<>>
    ELSE IF i + 2 <= Len(s) /\ IsUpper(s[i + 1]) /\ IsLower(s[i + 2])
    THEN <<s[i], "_">> \o SubSeq(s, i + 1, LowerRunEnd(s, i + 2))
             \o sub_word(s, LowerRunEnd(s, i + 2) + 1)
    ELSE <<s[i]>> \o sub_word(s, i + 1)

\* re.sub('([a-z0-9])([A-Z])', r'\1_\2', name), from position i on
RECURSIVE sub_hump(_, _)
sub_hump(s, i) ==
    IF i > Len(s) THEN <<>>
    ELSE IF i + 1 <= Len(s) /\ (IsLower(s[i]) \/ s[i] \in Digits) /\ IsUpper(s[i + 1])
    THEN <<s[i], "_", s[i + 1]>> \o sub_hump(s, i + 2)
    ELSE <<s[i]>> \o sub_hump(s, i + 1)

\* replicate-schema.py
to_snake_case(name) == str_lower(sub_hump(sub_word(name, 1), 1))

\* sync-data.py
camel_to_snake(name) == str_lower(sub_hump(sub_word(name, 1), 1))

\* identifiers over letters, digits and the underscore
MaxIdentLen == 4

IdentChars == {"a", "b", "A", "B", "1", "_"}

Identifiers == UNION {[1..n -> IdentChars] : n \in 0..MaxIdentLen}

\* ------------------------------------------------------------------ the insert loop
MaxSourceRows == 6

MaxBatchSize == 3

\* "if len(batch) >= BATCH_SIZE"
FlushDue_Late(b, size) == Len(b) > size

FlushDue(b, size) == Len(b) >= size

\* execute_batch; commit; rows_synced += len(batch)
Flush(st) ==
    [st EXCEPT !.target = @ \o st.batch,
               !.rows_synced = @ + Len(st.batch),
               !.commits = Append(@, Len(st.batch))]

\* the "while True" loop of sync_table_data over the rows of the source cursor
RECURSIVE sync_loop(_, _, _)
sync_loop(rows, size, st) ==
    IF st.fetched = Len(rows)
    THEN IF st.batch # <<>> THEN Flush(st) ELSE st
    ELSE LET st1 == [st EXCEPT !.fetched = @ + 1,
                               !.batch = Append(@, rows[st.fetched + 1]),
                               !.held = IF Len(st.batch) + 1 > @ THEN Len(st.batch) + 1 ELSE @]
         IN  IF FlushDue(st1.batch, size)
             THEN sync_loop(rows, size, [Flush(st1) EXCEPT !.batch = <<>>])
             ELSE sync_loop(rows, size, st1)

\* rows_synced = 0; batch = [] after the TRUNCATE
LoopStart ==
    [fetched |-> 0, batch |-> <<>>, target |-> <<>>, rows_synced |-> 0, commits |-> <<>>,
     held |-> 0]

\* ------------------------------------------------------------------ the CREATE TABLE statement
POSTGRES_RESERVED_KEYWORDS ==
    {"all", "analyse", "analyze", "and", "any", "array", "as", "asc", "asymmetric",
     "authorization", "between", "binary", "both", "case", "cast", "check", "collate",
     "collation", "column", "concurrently", "constraint", "create", "cross",
     "current_catalog", "current_date", "current_role", "current_schema",
     "current_time", "current_timestamp", "current_user", "default", "deferrable",
     "desc", "distinct", "do", "else", "end", "except", "false", "fetch", "for",
     "foreign", "freeze", "from", "full", "grant", "group", "having", "ilike", "in",
     "initially", "inner", "intersect", "into", "is", "isnull", "join", "lateral",
     "leading", "left", "like", "limit", "localtime", "localtimestamp", "natural",
     "not", "notnull", "null", "offset", "on", "only", "or", "order", "outer",
     "overlaps", "placing", "primary", "references", "returning", "right", "select",
     "session_user", "similar", "some", "symmetric", "table", "tablesample", "then",
     "to", "trailing", "true", "union", "unique", "user", "using", "variadic",
     "verbose", "when", "where", "window", "with"}

\* quote_identifier: the name in double quotes when it is a reserved keyword
quote_identifier(name) ==
    IF Join(str_lower(name)) \in POSTGRES_RESERVED_KEYWORDS
    THEN "\"" \o Join(name) \o "\""
    ELSE Join(name)

\* (variant: only the primary-key columns are NOT NULL)
col_not_null_PkOnly(row) == row.is_primary_key

\* "if is_pk: ... NOT NULL / elif not is_nullable: ... NOT NULL"
col_not_null(row) == row.is_primary_key \/ ~row.is_nullable

\* col_def of one row of get_mssql_schema
col_def(row) ==
    [name |-> quote_identifier(to_snake_case(row.column_name)),
     type |-> convert_type(row.data_type, row.max_length, row.precision, row.scale),
     not_null |-> col_not_null(row)]

\* columns.append("__cdc_deleted TEXT DEFAULT 'false'")
CdcDeletedColumn == [name |-> "__cdc_deleted", type |-> "TEXT DEFAULT 'false'", not_null |-> FALSE]

\* the for loop over the schema rows: columns and pk_columns
RECURSIVE build_columns(_, _, _)
build_columns(schema, i, acc) ==
    IF i > Len(schema) THEN acc
    ELSE build_columns(schema, i + 1,
            [columns |-> Append(acc.columns, col_def(schema[i])),
             pk_columns |-> IF schema[i].is_primary_key
                            THEN Append(acc.pk_columns, col_def(schema[i]).name)
                            ELSE acc.pk_columns])

\* create_sql: the columns, the marker column, and the PRIMARY KEY clause if there
\* is a primary-key column
create_sql(schema) ==
    LET built == build_columns(schema, 1, [columns |-> <<>>, pk_columns |-> <<>>])
    IN  [columns |-> Append(built.columns, CdcDeletedColumn),
         has_pk_clause |-> built.pk_columns # <<>>,
         primary_key |-> built.pk_columns]

MaxColumns == 3

\* the source columns by position: a name, a type, a length
ColumnNames == <<<<"O", "r", "d", "e", "r", "I", "d">>, <<"U", "s", "e", "r">>,
                 <<"n", "o", "t", "e">>, <<"Q", "t", "y">>>>

ColumnTypes == <<<<"i", "n", "t">>, <<"n", "v", "a", "r", "c", "h", "a", "r">>,
                 <<"t", "e", "x", "t">>, <<"d", "e", "c", "i", "m", "a", "l">>>>

SchemaRow(i, pk, nullable) ==
    [column_name |-> ColumnNames[i], data_type |-> ColumnTypes[i], max_length |-> 100,
     precision |-> 18, scale |-> 2, is_nullable |-> nullable, is_primary_key |-> pk]

\* the results of get_mssql_schema: 1..MaxColumns rows with every flag combination
SchemaRowLists ==
    UNION {{[i \in 1..n |-> SchemaRow(i, f[i][1], f[i][2])] :
               f \in [1..n -> BOOLEAN \X BOOLEAN]} : n \in 1..MaxColumns}

\* ------------------------------------------------------------------ get_progress_summary
\* get_completed_tables: the names of the completed entries
get_completed_tables(data) ==
    LET completed == SelectSeq(data.tables, LAMBDA rec : rec.status = "completed")
    IN  [i \in 1..Len(completed) |-> completed[i].name]

CountStatus(data, st) == Cardinality({i \in 1..Len(data.tables) : data.tables[i].status = st})

get_progress_summary(data, total_tables) ==
    [total |-> total_tables,
     completed |-> Len(get_completed_tables(data)),
     failed |-> CountStatus(data, "failed"),
     in_progress |-> CountStatus(data, "in_progress"),
     remaining |-> total_tables - Len(get_completed_tables(data))
                       - CountStatus(data, "failed") - CountStatus(data, "in_progress")]

Statuses == {"absent", "in_progress", "completed", "failed"}

\* the session with the given status (or no record) for each of the names, in order
RECURSIVE SessionOf(_, _, _)
SessionOf(names, st, i) ==
    IF i = 0 THEN new_progress
    ELSE IF st[i] = "absent" THEN SessionOf(names, st, i - 1)
    ELSE SetRecord(SessionOf(names, st, i - 1), names[i], st[i], 0,
                   IF st[i] = "failed" THEN "exc" ELSE "None")

\* sessions over two tables of the list and one table that is not in it (any more)
SummarySessions ==
    {SessionOf(<<Tables[1], Tables[2], UnknownTable>>, st, 3) : st \in [1..3 -> Statuses]}

\* ------------------------------------------------------------------ transform_value
\* UUID_COLUMNS and JSON_COLUMNS of the environment
UUID_COLUMNS == {<<"I", "d">>}

JSON_COLUMNS == {<<"P", "a", "y", "l", "o", "a", "d">>}

None == [py |-> "NoneType", str |-> "None", json |-> "null", truthy |-> FALSE]

\* Python values: the type, str(value), json.dumps(value), bool(value)
PyValues ==
    {None,
     [py |-> "str", str |-> "", json |-> "\"\"", truthy |-> FALSE],
     [py |-> "str", str |-> "{\"a\": 1}", json |-> "\"{\\\"a\\\": 1}\"", truthy |-> TRUE],
     [py |-> "int", str |-> "0", json |-> "0", truthy |-> FALSE],
     [py |-> "int", str |-> "7", json |-> "7", truthy |-> TRUE],
     [py |-> "bool", str |-> "False", json |-> "false", truthy |-> FALSE],
     [py |-> "bool", str |-> "True", json |-> "true", truthy |-> TRUE],
     [py |-> "list", str |-> "[]", json |-> "[]", truthy |-> FALSE],
     [py |-> "list", str |-> "[1]", json |-> "[1]", truthy |-> TRUE],
     [py |-> "dict", str |-> "{}", json |-> "{}", truthy |-> FALSE],
     [py |-> "dict", str |-> "{'a': 1}", json |-> "{\"a\": 1}", truthy |-> TRUE]}

\* the str object with the given text
PyStr(text) ==
    [py |-> "str", str |-> text, json |-> "\"" \o text \o "\"", truthy |-> text # ""]

\* column_name.lower() in [col.lower() for col in COLUMNS]
InColumns(column_name, columns) ==
    \E col \in columns : str_lower(col) = str_lower(column_name)

transform_value(value, column_name, data_type) ==
    IF value = None THEN None
    ELSE IF InColumns(column_name, UUID_COLUMNS)
    THEN IF value.py = "str" THEN value ELSE PyStr(value.str)
    ELSE IF InColumns(column_name, JSON_COLUMNS)
    THEN IF value.py = "str" THEN value
         ELSE IF value.truthy THEN PyStr(value.json) ELSE None
    ELSE IF data_type = "uniqueidentifier" THEN PyStr(value.str)
    ELSE IF data_type = "datetimeoffset"
    THEN IF value.truthy THEN PyStr(value.str) ELSE None
    ELSE value

ValueColumnNames ==
    {<<"P", "a", "y", "l", "o", "a", "d">>, <<"p", "a", "y", "l", "o", "a", "d">>,
     <<"I", "D">>, <<"N", "o", "t", "e">>}

ValueColumnTypes == {"int", "nvarchar", "uniqueidentifier", "datetimeoffset"}

\* ------------------------------------------------------------------ tables of several schemas
\* get_tables_to_sync: (schema, table) pairs, ORDER BY s.name, t.name
PairList ==
    <<[schema |-> "dbo", table |-> "A"], [schema |-> "dbo", table |-> "B"],
      [schema |-> "sales", table |-> "A"]>>

\* the key of a pair's progress record: main() and sync_table_data pass the table name
TableKey(pair) == pair.table

\* sync_table_data / main() on the pair: mark_table_started, _completed or _failed
MarkPair(data, pair, outcome) ==
    CASE outcome = "in_progress" -> mark_table_started(data, TableKey(pair))
      [] outcome = "completed" -> mark_table_completed(data, TableKey(pair), 1)
      [] outcome = "failed" -> mark_table_failed(data, TableKey(pair), "exc", 0)

PairSessions == {SessionOf(<<"A", "B">>, st, 2) : st \in [1..2 -> Statuses]}

\* ------------------------------------------------------------------ the calls
\* the variables of a run
runvars ==
    <<pc, kind, args, runs, mem, file, tgt, txn, idx, start_index, last_failed, cont, retval,
      batch, fetched, rows_synced, success_count, skipped_count, exitCode, uncaught, visited,
      prev_status, synced, pre_save>>

CallConvertType ==
    /\ call = NoCall
    /\ \E t \in TypeNames, l \in Lengths, p \in Precisions, s \in Scales :
          call' = [fn |-> "convert_type",
                   arg |-> [data_type |-> t, max_length |-> l, precision |-> p, scale |-> s],
                   ret |-> convert_type(t, l, p, s)]
    /\ UNCHANGED runvars

CallSnakeCase ==
    /\ call = NoCall
    /\ \E x \in Identifiers :
          call' = [fn |-> "to_snake_case", arg |-> x,
                   ret |-> [schema |-> to_snake_case(x), data |-> camel_to_snake(x)]]
    /\ UNCHANGED runvars

\* the loop, then mark_table_completed(table, "data", rows_synced); return rows_synced
CallSyncLoop ==
    /\ call = NoCall
    /\ \E n \in 0..MaxSourceRows, size \in 1..MaxBatchSize :
          LET done == sync_loop([i \in 1..n |-> i], size, LoopStart)
          IN  call' = [fn |-> "sync_loop", arg |-> [n |-> n, size |-> size],
                       ret |-> [loop |-> done,
                                session |-> mark_table_completed(new_progress, Tables[1],
                                                                 done.rows_synced),
                                returned |-> done.rows_synced]]
    /\ UNCHANGED runvars

CallCreateSql ==
    /\ call = NoCall
    /\ \E schema \in SchemaRowLists :
          call' = [fn |-> "create_sql", arg |-> schema, ret |-> create_sql(schema)]
    /\ UNCHANGED runvars

CallSummary ==
    /\ call = NoCall
    /\ \E data \in SummarySessions, total \in 0..NumTables :
          call' = [fn |-> "get_progress_summary",
                   arg |-> [data |-> data, total_tables |-> total],
                   ret |-> get_progress_summary(data, total)]
    /\ UNCHANGED runvars

CallTransformValue ==
    /\ call = NoCall
    /\ \E v \in PyValues, c \in ValueColumnNames, t \in ValueColumnTypes :
          call' = [fn |-> "transform_value",
                   arg |-> [value |-> v, column_name |-> c, data_type |-> t],
                   ret |-> transform_value(v, c, t)]
    /\ UNCHANGED runvars

CallMarkPair ==
    /\ call = NoCall
    /\ \E data \in PairSessions, i \in 1..Len(PairList),
          outcome \in {"in_progress", "completed", "failed"} :
          call' = [fn |-> "mark_pair", arg |-> [data |-> data, i |-> i, outcome |-> outcome],
                   ret |-> MarkPair(data, PairList[i], outcome)]
    /\ UNCHANGED runvars

FnInit == Init /\ file = [k \in Kinds |-> MissingFile]

FnNext ==
    \/ CallConvertType
    \/ CallSnakeCase
    \/ CallSyncLoop
    \/ CallCreateSql
    \/ CallSummary
    \/ CallTransformValue
    \/ CallMarkPair

FnSpec == FnInit /\ [][FnNext]_vars

\* ================================================================== properties
\* the record of a table in a session (a record of status "absent" when it has none)
RecordOf(data, t) ==
    IF HasKey(data, t) THEN data.tables[KeyPos(data, t)]
    ELSE [name |-> t, status |-> "absent", rows |-> 0, error |-> "None"]

AllCompleted(data) == \A t \in TableSet : is_table_completed(data, t)

\* a step inside one run: neither a start nor a termination, and not a --reset
RunStep == pc \notin {"idle", "done", "killed"} /\ pc' \notin {"loaded", "killed"} /\ ~args.reset

Positions(seq) == {seq[i] : i \in 1..Len(seq)}

\* the indices start_index+1 .. NumTables, in list order
FromStart == [i \in 1..(NumTables - start_index) |-> start_index + i]

SavePcs == {"save_open", "save_write"}

\* ------------------------------------------------------------------ C1
C1_ResumeVisits ==
    (pc = "done" /\ args.resume /\ last_failed \in TableSet) => visited = FromStart

C1_EarlierCompletedUntouched ==
    (RunStep /\ args.resume) =>
        \A i \in 1..start_index :
            is_table_completed(mem, Tables[i]) =>
                /\ RecordOf(mem', Tables[i]) = RecordOf(mem, Tables[i])
                /\ tgt'[Tables[i]] = tgt[Tables[i]]

\* C1: a run with --resume that has a resume point processes exactly the resume-point
\* table and every table after it, in list order and the resume-point table first,
\* and leaves the record and the target table of every completed table before the
\* resume point as they were.
C1_ResumeProcessesFromResumePoint ==
    []C1_ResumeVisits /\ [][C1_EarlierCompletedUntouched]_vars

\* ------------------------------------------------------------------ C2
\* C2: the progress file is rewritten atomically: when the process is terminated
\* during a mutating call, the file afterwards loads as the session before the
\* mutation or as the session after it.
C2_AtomicRewrite ==
    [][(pc \in SavePcs /\ pc' = "killed") =>
          load_progress(file'[kind]) \in {pre_save, mem}]_vars

\* ------------------------------------------------------------------ C3
\* C3: whenever a mutating ProgressTracker call (mark_table_started,
\* mark_table_completed, mark_table_failed, reset_progress) has returned, the
\* progress file holds the whole in-memory session, so that a termination right
\* after the call loads the table's latest status.
C3_DurableEqualsMemory ==
    (synced /\ pc \notin SavePcs) => load_progress(file[kind]) = mem

C3_Witness ==
    /\ synced
    /\ pc = "loop"
    /\ load_progress(file[kind]) = mem
    /\ \E t \in TableSet : get_table_status(mem, t) = "failed"
    /\ \E t \in TableSet : get_table_status(mem, t) = "completed"

\* ------------------------------------------------------------------ C4
\* C4: loading never ends the run: for a missing file and for every malformed file
\* the loaded session is a new empty session, and every later query of the session
\* succeeds.
C4_LoadNeverCrashes ==
    /\ (pc = "loaded" /\ file[kind].state # "session") => mem = new_progress
    /\ ~(pc = "done" /\ uncaught /\ idx = 0)

\* ------------------------------------------------------------------ C5
\* C5: in a schema run and in a data run a table's status changes only along
\* absent -> in_progress -> completed or failed: a record becomes completed or
\* failed only from in_progress.
C5_PhaseTransitions ==
    [][RunStep =>
          \A t \in TableSet :
              (/\ get_table_status(mem', t) \in {"completed", "failed"}
               /\ get_table_status(mem', t) # get_table_status(mem, t))
              => get_table_status(mem, t) = "in_progress"]_vars

\* ------------------------------------------------------------------ C6
C6_VisitsFromStart ==
    (pc = "done" /\ ~args.resume /\ ~args.reset /\ idx >= 1) =>
        /\ \A i \in (start_index + 1)..NumTables :
              i \in Positions(visited) \/ is_table_completed(mem, Tables[i])
        /\ \A j \in 1..Len(visited) :
              /\ visited[j] > start_index
              /\ j > 1 => visited[j - 1] < visited[j]

C6_CompletedLeftAlone ==
    (RunStep /\ ~args.resume) =>
        \A t \in TableSet :
            is_table_completed(mem, t) =>
                /\ RecordOf(mem', t) = RecordOf(mem, t)
                /\ tgt'[t] = tgt[t]
                /\ (visited' # visited => Tables[idx] # t)

\* C6: a run without --resume visits every table from the starting index on in list
\* order, skips a table whose phase is completed (its record and its target table
\* stay as they are) and processes every other table; only a --resume run marks a
\* completed record in_progress again.
C6_FreshRunSkipsCompleted ==
    []C6_VisitsFromStart /\ [][C6_CompletedLeftAlone]_vars

\* ------------------------------------------------------------------ C7
\* C7: a data run that went through its table list exits with code 0 exactly when
\* every table of the list has a completed data record at the end.
C7_DataExitCode ==
    (kind = "data" /\ pc = "done" /\ idx > NumTables) => (exitCode = 0 <=> AllCompleted(mem))

\* ------------------------------------------------------------------ C8
\* C8: a schema run that went through its table list exits with code 0 exactly when
\* every table of the list has a completed schema record at the end; with a failed
\* DDL the exit code is 1.
C8_SchemaExitCode ==
    (kind = "schema" /\ pc = "done" /\ idx > NumTables) =>
        /\ exitCode = 0 <=> AllCompleted(mem)
        /\ (\E t \in TableSet : get_table_status(mem, t) = "failed") => exitCode = 1

\* ------------------------------------------------------------------ C9
\* C9: an error of one table (reading its columns, its DDL, its copy) never ends
\* the run: a run that entered the loop goes through the whole list, and the table
\* is recorded as failed.
C9_TableErrorsDoNotAbort ==
    (pc = "done" /\ idx >= 1) =>
        /\ idx = NumTables + 1
        /\ ~uncaught

\* ------------------------------------------------------------------ C10
\* the sync_table_data call on the current table has succeeded
SyncSucceeded ==
    /\ kind = "data"
    /\ \/ pc = "sync_done"
       \/ pc \in SavePcs /\ cont = "returned" /\ get_table_status(mem, Cur) = "completed"

\* C10: whatever calls of sync_table_data came before on the table (failed at any
\* point, terminated or successful), after a successful call the target table
\* holds each source row exactly once, in source order, and the call reports the
\* number of source rows.
C10_SyncIdempotent ==
    SyncSucceeded =>
        /\ tgt[Cur].rows = SourceRows(Cur)
        /\ (IF pc = "sync_done" THEN rows_synced ELSE retval) = SourceRowCount(Cur)

C10_Witness ==
    /\ SyncSucceeded
    /\ pc = "sync_done"
    /\ prev_status = "failed"
    /\ SourceRowCount(Cur) > BATCH_SIZE

\* ------------------------------------------------------------------ C11
\* C11: in sync_table_data the TRUNCATE is in the transaction of the inserts that
\* follow it: no step of a data run makes the committed target table one that
\* holds no inserted row of the call, so a call that fails before its first batch
\* is committed leaves the table with the rows it had before the call.
C11_TruncateInInsertTransaction ==
    [][(tgt' # tgt /\ kind = "data") => tgt'[Cur].rows # <<>>]_vars

\* ------------------------------------------------------------------ C12
\* C12: when sync_table_data fails after k rows were inserted and committed in
\* earlier batches, the data record becomes failed with the exception text and
\* rows_synced = k.
C12_FailedRecordsCommittedRows ==
    [][(kind = "data" /\ pc \in SyncPcs /\ pc' = "save_open") =>
          RecordOf(mem', Cur) =
              [name |-> Cur, status |-> "failed", error |-> "exc",
               rows |-> IF pc \in {"select", "truncate", "truncate_commit"} THEN 0
                        ELSE rows_synced]]_vars

\* ------------------------------------------------------------------ C13
DdlPcs == {"ddl_drop", "ddl_create", "ddl_commit"}

C13_DdlStep ==
    (kind = "schema" /\ RunStep) =>
        \* the committed target changes only at the commit, to the new empty table
        /\ tgt' # tgt =>
              /\ pc = "ddl_commit" /\ pc' = "ddl_done"
              /\ tgt' = [tgt EXCEPT ![Cur] = EmptyTarget]
        \* a failing statement: rollback, failed with the error text, return False
        /\ (pc \in DdlPcs /\ pc' = "save_open") =>
              /\ tgt' = tgt /\ txn' = NoTxn /\ retval' = 0
              /\ RecordOf(mem', Cur) =
                    [name |-> Cur, status |-> "failed", rows |-> 0, error |-> "exc"]
        \* completed only after the commit of both statements
        /\ (mem' # mem /\ get_table_status(mem', Cur) = "completed") =>
              /\ pc = "ddl_done" /\ retval' = 1
              /\ tgt[Cur] = EmptyTarget

\* C13: create_postgres_table executes DROP and CREATE as one transaction: when a
\* statement fails the transaction is rolled back, the target table that existed
\* before the call is still there with its rows, the schema record is failed with
\* the error text and the call returns False; only when both succeed the
\* transaction is committed and the record becomes completed.
C13_DropCreateOneTransaction == [][C13_DdlStep]_vars

C13_Witness ==
    /\ kind = "schema"
    /\ pc = "save_open"
    /\ cont = "returned"
    /\ get_table_status(mem, Cur) = "failed"
    /\ tgt[Cur].rows # <<>>

\* ------------------------------------------------------------------ C14
C14_UnknownStartEndsRun ==
    /\ (args.start_from_table = UnknownTable /\ pc \notin {"idle", "killed"}) =>
          /\ pc \in {"loaded", "done"}
          /\ idx = 0 /\ visited = <<>> /\ ~synced /\ txn = NoTxn
          /\ pc = "done" => exitCode = 1
    /\ (args.start_from_table \in TableSet /\ pc \notin {"idle", "loaded", "killed"}
          /\ idx >= 1) =>
          start_index = IndexOf(args.start_from_table) - 1

C14_UnknownStartChangesNothing ==
    (RunStep /\ args.start_from_table = UnknownTable) => UNCHANGED <<mem, file, tgt, txn>>

C15_BeforeStartUntouched ==
    RunStep =>
        /\ \A i \in 1..start_index :
              /\ RecordOf(mem', Tables[i]) = RecordOf(mem, Tables[i])
              /\ tgt'[Tables[i]] = tgt[Tables[i]]
        /\ (pc = "loop" /\ idx <= start_index) =>
              /\ skipped_count' = skipped_count + 1
              /\ idx' = idx + 1
              /\ UNCHANGED <<mem, file, tgt, txn, visited, success_count>>

C15_BeforeStartCounted ==
    (pc \notin {"idle", "loaded", "killed"} /\ idx > start_index) =>
        skipped_count >= start_index

C16_ResumeWithoutResumePoint ==
    [][(RunStep /\ args.resume /\ pc = "loop" /\ last_failed = NoTable
          /\ visited' # visited) =>
          ~is_table_completed(mem, Cur)]_vars

\* ------------------------------------------------------------------ C17
C17_FinishedTablesAreDurable ==
    pc \notin {"idle", "killed"} =>
        \A j \in 1..Len(visited) :
            visited[j] < idx =>
                get_table_status(load_progress(file[kind]), Tables[visited[j]])
                    \in {"completed", "failed"}

C17_LaterTablesUnmarked ==
    (RunStep /\ pc # "loaded") =>
        \A i \in (idx + 1)..NumTables : RecordOf(mem', Tables[i]) = RecordOf(mem, Tables[i])

\* C17: the progress file is written before the next table begins: wherever the
\* process could be terminated, the file holds a completed or failed record for
\* every table this run has finished, and the run has marked no table that comes
\* later in the list.
C17_WriteThenProceed ==
    []C17_FinishedTablesAreDurable /\ [][C17_LaterTablesUnmarked]_vars

\* ------------------------------------------------------------------ C18
ResumeArgs ==
    [reset |-> FALSE, resume |-> TRUE, start_from_table |-> NoTable, no_truncate |-> FALSE]

\* C18: when the process is terminated while table T is processed (its
\* in_progress record is in the file, its terminal record not yet begun), the next
\* --resume run starts at T, whatever records earlier runs left.
C18_ResumeStartsAtInterruptedTable ==
    [][(pc \in DdlPcs \cup SyncPcs \cup {"ddl_done", "sync_done"} /\ pc' = "killed") =>
          StartIndex(load_progress(file'[kind]), ResumeArgs) = idx - 1]_vars

\* ------------------------------------------------------------------ C19
\* the first table of the list whose record is failed or in_progress
FirstPartialInList(data) ==
    LET hits == {i \in 1..NumTables : is_table_partial(data, Tables[i])}
    IN  IF hits = {} THEN NoTable
        ELSE Tables[CHOOSE i \in hits : \A j \in hits : i <= j]

\* C19: get_last_failed_table returns None exactly when no table is failed or
\* in_progress, and otherwise the first such table of the table list, whatever
\* order earlier runs wrote the records in.
C19_ResumePointInListOrder ==
    [][(pc = "loaded" /\ pc' = "loop" /\ args.resume) =>
          last_failed' = FirstPartialInList(mem)]_vars

\* ------------------------------------------------------------------ C20
\* C20: in a data run with --resume --no-truncate the target table of the
\* resume-point table is not truncated: no step takes committed rows from it.
C20_NoTruncateKeepsRows ==
    [][(RunStep /\ kind = "data" /\ args.resume /\ args.no_truncate
          /\ idx >= 1 /\ idx <= NumTables /\ Cur = last_failed) =>
          Len(tgt'[Cur].rows) >= Len(tgt[Cur].rows)]_vars

\* ------------------------------------------------------------------ C21
C21_AfterReset ==
    (args.reset /\ pc \notin {"idle", "killed"}) =>
        /\ idx = 0 /\ visited = <<>> /\ txn = NoTxn
        /\ pc = "done" =>
              /\ exitCode = 0
              /\ file[kind] = json_dump(new_progress)
              /\ load_progress(file[kind]).tables = <<>>
              /\ \A t \in TableSet \cup {UnknownTable} :
                    /\ ~is_table_completed(load_progress(file[kind]), t)
                    /\ ~is_table_partial(load_progress(file[kind]), t)
              /\ get_last_failed_table(load_progress(file[kind])) = NoTable

C21_EntriesStay ==
    /\ RunStep => \A t \in TableSet : HasKey(mem, t) => HasKey(mem', t)
    /\ (args.reset /\ pc \notin {"idle", "done", "killed"}) => tgt' = tgt

\* C21: reset_progress discards everything: after a --reset run the progress file
\* is a session without table entries (nothing is completed or partial, there is
\* no resume point) and the run has processed no table. No other operation takes
\* a table entry out of the session during a run.
C21_ResetDiscardsAll == []C21_AfterReset /\ [][C21_EntriesStay]_vars

C21_Witness ==
    /\ args.reset
    /\ pc = "done"
    /\ kind = "schema"
    /\ file[kind] = json_dump(new_progress)
    /\ \E t \in TableSet : tgt[t].exists
    /\ file["data"].state = "session" /\ file["data"].tables # <<>>

\* ------------------------------------------------------------------ C22
\* the tables this run processed whose record is failed
FailedInRun == {i \in Positions(visited) : get_table_status(mem, Tables[i]) = "failed"}

\* C22: at the end of a run the summary's successful, skipped and failed counts
\* are not negative and add up to the number of tables, and the failed count is
\* the number of tables whose processing in this run ended with a failed record.
C22_SummaryCounts ==
    (pc = "done" /\ idx > NumTables) =>
        /\ success_count >= 0 /\ skipped_count >= 0
        /\ FailedCount(success_count, skipped_count) >= 0
        /\ success_count + skipped_count + FailedCount(success_count, skipped_count)
              = NumTables
        /\ FailedCount(success_count, skipped_count) = Cardinality(FailedInRun)

\* ------------------------------------------------------------------ C23
\* C23: for every number N >= 0 of source rows and every batch size B >= 1 a sync
\* that meets no error inserts every source row once, in source order, commits a
\* batch each time B rows have accumulated and once more for a non-empty rest,
\* never holds more than B rows that are not committed, and records and returns
\* rows_synced = N with status completed.
C23_BatchedInsert ==
    call.fn = "sync_loop" =>
        LET N == call.arg.n
            B == call.arg.size
            loop == call.ret.loop
        IN  /\ loop.target = [i \in 1..N |-> i]
            /\ loop.held <= B
            /\ Len(loop.commits) = (N \div B) + (IF N % B > 0 THEN 1 ELSE 0)
            /\ \A k \in 1..Len(loop.commits) :
                  loop.commits[k] = IF k <= N \div B THEN B ELSE N % B
            /\ loop.rows_synced = N
            /\ call.ret.returned = N
            /\ RecordOf(call.ret.session, Tables[1]) =
                  [name |-> Tables[1], status |-> "completed", rows |-> N, error |-> "None"]

C23_Witness ==
    /\ call.fn = "sync_loop"
    /\ call.arg = [n |-> 5, size |-> 2]
    /\ call.ret.loop.commits = <<2, 2, 1>>
    /\ call.ret.returned = 5

\* ------------------------------------------------------------------ C24
\* C24: convert_type maps varchar and nvarchar to VARCHAR(n) exactly when
\* 0 < max_length < 8000 and to TEXT otherwise; n is the length for varchar and
\* the halved length for nvarchar, and n is at least 1.
C24_VarcharBoundary ==
    (call.fn = "convert_type"
        /\ Join(str_lower(call.arg.data_type)) \in {"varchar", "nvarchar"}) =>
        LET length == call.arg.max_length
            n == IF Join(str_lower(call.arg.data_type)) = "varchar" THEN length
                 ELSE length \div 2
        IN  IF 0 < length /\ length < 8000
            THEN call.ret = "VARCHAR(" \o ToString(n) \o ")" /\ n >= 1
            ELSE call.ret = "TEXT"

\* ------------------------------------------------------------------ C25
\* C25: convert_type is total: for every type name, in any letter case, known or
\* not, and every length, precision and scale it returns a type expression and
\* does not raise; a name that is not in TYPE_MAPPING gives TEXT; the same
\* arguments give the same result.
C25_ConvertTypeTotal ==
    call.fn = "convert_type" =>
        /\ call.ret \notin {Raised, Lambda}
        /\ Join(str_lower(call.arg.data_type)) \notin DOMAIN TYPE_MAPPING => call.ret = "TEXT"
        /\ \A t \in TypeNames :
              str_lower(t) = str_lower(call.arg.data_type) =>
                  convert_type(t, call.arg.max_length, call.arg.precision, call.arg.scale)
                      = call.ret

C25_Witness ==
    /\ call.fn = "convert_type"
    /\ call.arg.data_type = <<"N", "V", "a", "r", "C", "h", "a", "r">>
    /\ call.arg.max_length = 7999
    /\ call.ret = "VARCHAR(3999)"

\* ------------------------------------------------------------------ C26
\* C26: to_snake_case (camel_to_snake in sync-data.py) is idempotent on
\* identifiers of letters, digits and underscores, and its result has no
\* uppercase letter.
C26_SnakeCaseIdempotent ==
    call.fn = "to_snake_case" =>
        /\ to_snake_case(call.ret.schema) = call.ret.schema
        /\ camel_to_snake(call.ret.data) = call.ret.data
        /\ \A i \in 1..Len(call.ret.schema) : ~IsUpper(call.ret.schema[i])
        /\ \A i \in 1..Len(call.ret.data) : ~IsUpper(call.ret.data[i])

C26_Witness ==
    /\ call.fn = "to_snake_case"
    /\ call.arg = <<"a", "B", "A", "b">>
    /\ call.ret.schema = <<"a", "_", "b", "_", "a", "b">>
    /\ call.ret.data = call.ret.schema

\* ------------------------------------------------------------------ C27
\* C27: the table definition has one column per source column, in source order,
\* NOT NULL exactly for the primary-key columns and the columns that are not
\* nullable, then the column __cdc_deleted TEXT DEFAULT 'false' as the last one,
\* and a primary key over exactly the primary-key columns in source order (no
\* PRIMARY KEY clause without one).
C27_TableDefinition ==
    call.fn = "create_sql" =>
        LET schema == call.arg
            def == call.ret
            pks == SelectSeq(schema, LAMBDA row : row.is_primary_key)
        IN  /\ Len(def.columns) = Len(schema) + 1
            /\ \A i \in 1..Len(schema) :
                  /\ def.columns[i].name = quote_identifier(to_snake_case(schema[i].column_name))
                  /\ def.columns[i].not_null
                        <=> (schema[i].is_primary_key \/ ~schema[i].is_nullable)
            /\ def.columns[Len(schema) + 1] =
                  [name |-> "__cdc_deleted", type |-> "TEXT DEFAULT 'false'",
                   not_null |-> FALSE]
            /\ def.has_pk_clause <=> (\E i \in 1..Len(schema) : schema[i].is_primary_key)
            /\ def.primary_key =
                  [k \in 1..Len(pks) |-> quote_identifier(to_snake_case(pks[k].column_name))]

C27_Witness ==
    /\ call.fn = "create_sql"
    /\ Len(call.arg) = 3
    /\ call.arg[1].is_primary_key /\ ~call.arg[2].is_primary_key /\ call.arg[3].is_primary_key
    /\ ~call.arg[2].is_nullable /\ call.arg[3].is_nullable
    /\ call.ret.primary_key = <<"order_id", "note">>
    /\ call.ret.columns[2].name = "\"user\""

\* ------------------------------------------------------------------ C28
\* C28: for every session and every total_tables the counts of
\* get_progress_summary add up to the total, and remaining is not negative and is
\* the number of tables of the current list without a record, also when the
\* session has records of tables that are not in the list.
C28_SummaryAddsUp ==
    call.fn = "get_progress_summary" =>
        LET data == call.arg.data
            total == call.arg.total_tables
            sum == call.ret
        IN  /\ sum.completed + sum.failed + sum.in_progress + sum.remaining = sum.total
            /\ sum.total = total
            /\ sum.remaining >= 0
            /\ sum.remaining = Cardinality({i \in 1..total : ~HasKey(data, TableNames[i])})

\* ------------------------------------------------------------------ C29
\* C29: transform_value gives None for None; for a JSON column it returns a
\* string as it is and the JSON text of every other value, also of 0, False, []
\* and {}; it never turns a value that is not None into None.
C29_TransformValue ==
    call.fn = "transform_value" =>
        LET value == call.arg.value
        IN  /\ value = None => call.ret = None
            /\ (InColumns(call.arg.column_name, JSON_COLUMNS) /\ value # None) =>
                  call.ret = IF value.py = "str" THEN value ELSE PyStr(value.json)
            /\ value # None => call.ret # None

\* ------------------------------------------------------------------ C30
\* C30: every (schema, table) pair of the table list has a data record of its own:
\* marking one pair started, completed or failed leaves the record of every other
\* pair as it was, also of a pair with the same table name in another schema.
C30_PairsHaveOwnRecords ==
    call.fn = "mark_pair" =>
        \A j \in 1..Len(PairList) :
            j # call.arg.i =>
                RecordOf(call.ret, TableKey(PairList[j]))
                    = RecordOf(call.arg.data, TableKey(PairList[j]))

\* ------------------------------------------------------------------ C31
\* the progress file of a kind, as the next run loads it
Durable(k) == load_progress(file[k])

\* the run went through the table list and every table it processed is completed
RanWithoutFailure ==
    /\ pc = "done" /\ idx > NumTables /\ ~uncaught
    /\ \A j \in 1..Len(visited) : is_table_completed(mem, Tables[visited[j]])

\* C31: after a --resume run in which no table's processing failed and which was
\* not terminated, no table of the list has status failed or in_progress.
C31_ResumeLeavesNoPartial ==
    (args.resume /\ RanWithoutFailure) =>
        \A t \in TableSet : ~is_table_partial(Durable(kind), t)

\* ------------------------------------------------------------------ C32
\* the key orders a session can have: the tables that have a record, in the order
\* in which earlier runs first marked them
KeyOrders ==
    {s \in UNION {[1..n -> TableSet] : n \in 0..NumTables} :
        \A i, j \in DOMAIN s : i # j => s[i] # s[j]}

\* a record as the mark_table_* calls of a kind leave it
RecordWith(k, t, st) ==
    [name |-> t, status |-> st,
     rows |-> IF k = "data" /\ st = "completed" THEN SourceRowCount(t) ELSE 0,
     error |-> IF st = "failed" THEN "exc" ELSE "None"]

\* every progress state: any records, in any key order
Sessions(k) ==
    UNION {{[ok |-> TRUE, tables |-> [i \in DOMAIN s |-> RecordWith(k, s[i], st[i])]] :
               st \in [DOMAIN s -> {"in_progress", "completed", "failed"}]} :
           s \in KeyOrders}

\* the progress files earlier runs (finished, failed or terminated) can leave
LeftFiles(k) == {MissingFile, EmptyFile, PartialFile} \cup {json_dump(d) : d \in Sessions(k)}

\* the target: not replicated yet (a data run needs the tables), empty, or loaded
LeftTargets(k) ==
    {[t \in TableSet |-> EmptyTarget],
     [t \in TableSet |-> [exists |-> TRUE, rows |-> SourceRows(t)]]}
    \cup (IF k = "schema" THEN {[t \in TableSet |-> NoTarget]} ELSE {})

LiveInit ==
    /\ pc = "idle"
    /\ kind \in Kinds
    /\ args = [reset |-> FALSE, resume |-> FALSE, start_from_table |-> NoTable,
               no_truncate |-> FALSE]
    /\ runs = 0
    /\ mem = new_progress
    /\ \E f \in LeftFiles(kind) :
          file = [k \in Kinds |-> IF k = kind THEN f ELSE MissingFile]
    /\ tgt \in LeftTargets(kind)
    /\ txn = NoTxn
    /\ idx = 0
    /\ start_index = 0
    /\ last_failed = NoTable
    /\ cont = "none"
    /\ retval = 0
    /\ batch = <<>>
    /\ fetched = 0
    /\ rows_synced = 0
    /\ success_count = 0
    /\ skipped_count = 0
    /\ exitCode = -1
    /\ uncaught = FALSE
    /\ visited = <<>>
    /\ prev_status = "absent"
    /\ synced = FALSE
    /\ pre_save = new_progress
    /\ call = NoCall

\* the script of the phase is invoked (again) with --resume: main() up to
\* ProgressTracker(...); runs counts the invocations up to MaxRuns
ResumeAgain ==
    /\ pc \in {"idle", "done"}
    /\ \E nt \in BOOLEAN :
          /\ nt => kind = "data"
          /\ args' = [ResumeArgs EXCEPT !.no_truncate = nt]
    /\ runs' = IF runs < MaxRuns THEN runs + 1 ELSE runs
    /\ mem' = load_progress(file[kind])
    /\ pc' = "loaded"
    /\ txn' = NoTxn
    /\ idx' = 0
    /\ start_index' = 0
    /\ last_failed' = NoTable
    /\ cont' = "none"
    /\ retval' = 0
    /\ batch' = <<>>
    /\ fetched' = 0
    /\ rows_synced' = 0
    /\ success_count' = 0
    /\ skipped_count' = 0
    /\ exitCode' = -1
    /\ uncaught' = FALSE
    /\ visited' = <<>>
    /\ prev_status' = "absent"
    /\ synced' = FALSE
    /\ pre_save' = new_progress
    /\ UNCHANGED <<kind, file, tgt, call>>

\* the steps of runs in which nothing fails and nothing is terminated
LiveNext ==
    \/ ResumeAgain
    \/ Plan
    \/ SkipBeforeStart
    \/ SchemaRead
    \/ DataRead
    \/ SaveWrite
    \/ SaveClose
    \/ DdlDrop
    \/ DdlCreate
    \/ DdlCommit
    \/ DdlCompleted
    \/ SyncSelect
    \/ SyncTruncate
    \/ SyncTruncateCommit
    \/ SyncFetchRow
    \/ SyncFetchEnd
    \/ SyncExecuteBatch
    \/ SyncCommitBatch
    \/ SyncCompleted
    \/ Finish

\* the script runs on to its end and is invoked again
LiveSpec == LiveInit /\ [][LiveNext]_vars /\ WF_vars(LiveNext)

\* C32: from any progress state, when no table's processing fails and no run is
\* terminated, invoking the run with --resume again and again reaches, after
\* finitely many invocations, a state in which every table of the list is
\* completed.
C32_ResumeEventuallyCompletes == <>(pc = "done" /\ AllCompleted(Durable(kind)))

\* the third invocation was needed: it still found a resume point
C32_Witness ==
    /\ pc = "done"
    /\ runs = 3
    /\ last_failed # NoTable
    /\ AllCompleted(Durable(kind))

\* ------------------------------------------------------------------ C33
\* what the phase commits to the target for a table
Committed(k, t) ==
    IF k = "schema" THEN tgt[t] = EmptyTarget
    ELSE tgt[t].exists /\ tgt[t].rows = SourceRows(t)

C33_CompletedSchemaExists ==
    \A t \in TableSet : is_table_completed(Durable("schema"), t) => tgt[t].exists

C33_CommitBeforeRecord ==
    \* the record of the current table becomes completed, in memory and then in the
    \* file, with the transaction committed and closed
    /\ (RunStep /\ idx >= 1 /\ idx <= NumTables
          /\ \/ mem' # mem /\ is_table_completed(mem', Cur)
             \/ file' # file /\ is_table_completed(Durable(kind)', Cur)) =>
          /\ Committed(kind, Cur)
          /\ txn = NoTxn /\ tgt' = tgt
          /\ kind = "data" => RecordOf(mem', Cur).rows = SourceRowCount(Cur)
    \* a run writes to the target only while the file has no completed record of the table
    /\ (RunStep /\ tgt' # tgt) =>
          /\ ~is_table_completed(Durable(kind), Cur)
          /\ \A t \in TableSet \ {Cur} : tgt'[t] = tgt[t]

\* C33: a phase is recorded as completed only after the target transaction of the
\* table is committed: wherever the process could be terminated, a completed schema
\* record in the file means that DROP and CREATE were committed, a completed data
\* record that every source row of that sync was committed.
C33_CompletedAfterCommit ==
    []C33_CompletedSchemaExists /\ [][C33_CommitBeforeRecord]_vars

C33_Witness ==
    /\ kind = "data"
    /\ pc = "loop"
    /\ idx = 2
    /\ prev_status = "completed"
    /\ is_table_completed(Durable("data"), Tables[1])
    /\ is_table_completed(Durable("schema"), Tables[1])
    /\ tgt[Tables[1]].rows = SourceRows(Tables[1])

\* ------------------------------------------------------------------ C34
\* C34: whenever the data record of a table is completed, the target table exists
\* and holds the source rows that sync loaded, whatever schema and data runs follow.
C34_CompletedDataIsLoaded ==
    \A t \in TableSet :
        is_table_completed(Durable("data"), t) =>
            tgt[t].exists /\ tgt[t].rows = SourceRows(t)

\* ------------------------------------------------------------------ C35
\* C35: in the progress file of a phase at most one table has status in_progress,
\* also after terminated runs and runs with --start-from-table.
C35_OneInProgress ==
    \A k \in Kinds :
        Cardinality({t \in TableSet : get_table_status(Durable(k), t) = "in_progress"}) <= 1
====
